---- MODULE Spec2Model ----
(***************************************************************************)
(* sensor-exporter (src/sensor-exporter/main.go): a Prometheus exporter    *)
(* with three collectors (lm-sensors chips, the hddtemp daemon, the UPS    *)
(* status tool).  The model covers the HddCollector's connection and       *)
(* buffer handling under overlapping scrapes, the hddtemp wire-format      *)
(* parser, and the failure behaviour of the three Collect methods.         *)
(*                                                                         *)
(* Go strings are modelled as sequences of one-character strings.          *)
(* float64 values are modelled exactly as decimal fractions <<n, k>>       *)
(* (n / 10^k, without trailing zeros in the fraction).                     *)
(***************************************************************************)
EXTENDS Integers, Sequences, FiniteSets, TLC

(***************************************************************************)
(* Bounds of the model.                                                    *)
(***************************************************************************)
\* Scrapes served during one run of the process (they may overlap).
NScrapes == 2
\* Bytes one Read of io.Copy delivers at most.
ReadSize == 5
\* Records per hddtemp response in the parser's input space.
MaxRecs == 2
\* Length of the unstructured hddtemp responses in the parser's input space.
MaxRaw == 3

Scrapes == 1..NScrapes

(***************************************************************************)
(* Strings.                                                                *)
(***************************************************************************)
Digits == {"0", "1", "2", "3", "4", "5", "6", "7", "8", "9"}

DigitVal(c) ==
    CASE c = "0" -> 0 [] c = "1" -> 1 [] c = "2" -> 2 [] c = "3" -> 3
      [] c = "4" -> 4 [] c = "5" -> 5 [] c = "6" -> 6 [] c = "7" -> 7
      [] c = "8" -> 8 [] c = "9" -> 9

\* White space as unicode.IsSpace sees it, within the model's alphabet.
IsSpace(c) == c \in {" ", "\t", "\n"}

\* s[i:j] of Go (0-based, half-open); the caller guards 0 <= i <= j <= len(s).
Slice(s, i, j) == SubSeq(s, i + 1, j)

HasPrefix(s, prefix) ==
    /\ Len(s) >= Len(prefix)
    /\ SubSeq(s, 1, Len(prefix)) = prefix

\* strings.Index(s, sep) as a 1-based position, 0 when sep does not occur.
RECURSIVE IndexFrom(_, _, _)
IndexFrom(s, sep, i) ==
    IF i + Len(sep) - 1 > Len(s) THEN 0
    ELSE IF SubSeq(s, i, i + Len(sep) - 1) = sep THEN i
    ELSE IndexFrom(s, sep, i + 1)

\* strings.Split(s, sep) for a non-empty sep: leftmost, non-overlapping.
RECURSIVE Split(_, _)
Split(s, sep) ==
    LET i == IndexFrom(s, sep, 1)
    IN  IF i = 0 THEN <<s>>
        ELSE <<SubSeq(s, 1, i - 1)>> \o Split(SubSeq(s, i + Len(sep), Len(s)), sep)

\* strings.Fields(s): the maximal runs of non-space characters.
RECURSIVE Fields(_)
Fields(s) ==
    IF s = <<>> THEN <<>>
    ELSE IF IsSpace(Head(s)) THEN Fields(Tail(s))
    ELSE LET sp == {i \in 1..Len(s) : IsSpace(s[i])}
             e  == IF sp = {} THEN Len(s) + 1
                   ELSE CHOOSE i \in sp : \A j \in sp : i <= j
         IN  <<SubSeq(s, 1, e - 1)>> \o Fields(SubSeq(s, e, Len(s)))

(***************************************************************************)
(* strconv.ParseFloat(s, 64).  The model's alphabet has the digits, '.',   *)
(* and characters that no float literal contains, so a literal parses      *)
(* exactly when it is made of digits with at most one '.', and at least    *)
(* one digit.                                                              *)
(***************************************************************************)
RECURSIVE DigitsVal(_)
DigitsVal(s) ==
    IF s = <<>> THEN 0
    ELSE 10 * DigitsVal(SubSeq(s, 1, Len(s) - 1)) + DigitVal(s[Len(s)])

RECURSIVE Normal(_)
Normal(v) ==
    IF v[2] > 0 /\ v[1] % 10 = 0 THEN Normal(<<v[1] \div 10, v[2] - 1>>) ELSE v

ParseFloatOk(s) ==
    /\ \A i \in 1..Len(s) : s[i] \in Digits \cup {"."}
    /\ Cardinality({i \in 1..Len(s) : s[i] = "."}) <= 1
    /\ \E i \in 1..Len(s) : s[i] \in Digits

ParseFloatVal(s) ==
    LET dot  == IndexFrom(s, <<".">>, 1)
        int  == IF dot = 0 THEN s ELSE SubSeq(s, 1, dot - 1)
        frac == IF dot = 0 THEN <<>> ELSE SubSeq(s, dot + 1, Len(s))
    IN  Normal(<<DigitsVal(int \o frac), Len(frac)>>)

\* The float64 of an integer.
Float(n) == <<n, 0>>

(***************************************************************************)
(* The hddtemp parser.  A result is ok (with records), err (an error       *)
(* value) or panic (a runtime fault that unwinds the calling goroutine).   *)
(***************************************************************************)
HddTemperature(dev, id, t) == [Device |-> dev, Id |-> id, TemperatureCelsius |-> t]

\* parseHddTemp with Device and Id taken from the wrong pieces.
parseHddTempSwapped(s) ==
    LET pieces == Split(s, <<"|">>)
    IN  IF Len(pieces) # 4 THEN [kind |-> "err"]
        ELSE IF pieces[4] = <<"*">>
          THEN [kind |-> "ok", temp |-> HddTemperature(pieces[2], pieces[1], Float(-1))]
        ELSE IF pieces[4] # <<"C">> \/ ~ParseFloatOk(pieces[3]) THEN [kind |-> "err"]
        ELSE [kind |-> "ok",
              temp |-> HddTemperature(pieces[2], pieces[1], ParseFloatVal(pieces[3]))]

\* parseHddTemp parsing the temperature before it looks at the unit.
parseHddTempParseFirst(s) ==
    LET pieces == Split(s, <<"|">>)
    IN  IF Len(pieces) # 4 THEN [kind |-> "err"]
        ELSE IF ~ParseFloatOk(pieces[3]) THEN [kind |-> "err"]
        ELSE IF pieces[4] = <<"*">>
          THEN [kind |-> "ok", temp |-> HddTemperature(pieces[1], pieces[2], Float(-1))]
        ELSE IF pieces[4] # <<"C">> THEN [kind |-> "err"]
        ELSE [kind |-> "ok",
              temp |-> HddTemperature(pieces[1], pieces[2], ParseFloatVal(pieces[3]))]

\* parseHddTemp comparing the unit without regard to case.
parseHddTempFoldCase(s) ==
    LET pieces == Split(s, <<"|">>)
    IN  IF Len(pieces) # 4 THEN [kind |-> "err"]
        ELSE IF pieces[4] = <<"*">>
          THEN [kind |-> "ok", temp |-> HddTemperature(pieces[1], pieces[2], Float(-1))]
        ELSE IF pieces[4] \notin {<<"C">>, <<"c">>} THEN [kind |-> "err"]
        ELSE IF ~ParseFloatOk(pieces[3]) THEN [kind |-> "err"]
        ELSE [kind |-> "ok",
              temp |-> HddTemperature(pieces[1], pieces[2], ParseFloatVal(pieces[3]))]

parseHddTemp(s) ==
    LET pieces == Split(s, <<"|">>)
    IN  IF Len(pieces) # 4 THEN [kind |-> "err"]
        ELSE LET dev  == pieces[1]
                 id   == pieces[2]
                 temp == pieces[3]
                 unit == pieces[4]
             IN  IF unit = <<"*">>
                   THEN [kind |-> "ok", temp |-> HddTemperature(dev, id, Float(-1))]
                 ELSE IF unit # <<"C">> THEN [kind |-> "err"]
                 ELSE IF ~ParseFloatOk(temp) THEN [kind |-> "err"]
                 ELSE [kind |-> "ok",
                       temp |-> HddTemperature(dev, id, ParseFloatVal(temp))]

\* The loop of parseHddTemps going on to the next item after a bad one.
RECURSIVE parseItemsSkip(_, _)
parseItemsSkip(items, hddtemps) ==
    IF items = <<>> THEN [kind |-> "ok", temps |-> hddtemps]
    ELSE LET r == parseHddTemp(Head(items))
         IN  IF r.kind = "err" THEN parseItemsSkip(Tail(items), hddtemps)
             ELSE parseItemsSkip(Tail(items), Append(hddtemps, r.temp))

\* The loop of parseHddTemps over the items, hddtemps being the records so far.
RECURSIVE parseItems(_, _)
parseItems(items, hddtemps) ==
    IF items = <<>> THEN [kind |-> "ok", temps |-> hddtemps]
    ELSE LET r == parseHddTemp(Head(items))
         IN  IF r.kind = "err" THEN [kind |-> "err", temps |-> <<>>]
             ELSE parseItems(Tail(items), Append(hddtemps, r.temp))

\* parseHddTemps checking the length only, not the first byte.
parseHddTempsAnyFirst(s) ==
    IF Len(s) < 1 THEN [kind |-> "err", temps |-> <<>>]
    ELSE IF Len(s) - 1 < 1 THEN [kind |-> "panic", temps |-> <<>>]
    ELSE parseItems(Split(Slice(s, 1, Len(s) - 1), <<"|", "|">>), <<>>)

parseHddTemps(s) ==
    IF Len(s) < 1 \/ s[1] # "|" THEN [kind |-> "err", temps |-> <<>>]
    ELSE IF Len(s) - 1 < 1 THEN [kind |-> "panic", temps |-> <<>>]
    ELSE parseItems(Split(Slice(s, 1, Len(s) - 1), <<"|", "|">>), <<>>)


(***************************************************************************)
(* Metrics.  A sample is a descriptor, a value and the label values given  *)
(* to MustNewConstMetric; LabelNames is the descriptor table.              *)
(***************************************************************************)
LabelNames(desc) ==
    CASE desc = "fanspeedDesc"    -> <<"fantype", "chip", "adaptor">>
      [] desc = "voltageDesc"     -> <<"intype", "chip", "adaptor">>
      [] desc = "powerDesc"       -> <<"powertype", "chip", "adaptor">>
      [] desc = "temperatureDesc" -> <<"temptype", "chip", "adaptor">>
      [] desc = "hddTempDesc"     -> <<"device", "id">>
      [] desc = "LoadDesc"        -> <<"device">>
      [] desc = "StateDesc"       -> <<"device">>
      [] desc = "BatteryDesc"     -> <<"device">>
      [] desc = "RtimeDesc"       -> <<"device">>
      [] desc = "InVoltageDesc"   -> <<"device">>
      [] desc = "OutVoltageDesc"  -> <<"device">>
      [] desc = "TestDesc"        -> <<"device">>

MustNewConstMetric(desc, value, labelValues) ==
    [desc |-> desc, value |-> value, labels |-> labelValues]

\* HddSamples passing the device as the only label value.
HddSamplesDeviceOnly(hddtemps) ==
    [i \in 1..Len(hddtemps) |->
        MustNewConstMetric("hddTempDesc", hddtemps[i].TemperatureCelsius,
                           <<hddtemps[i].Device>>)]

\* The samples HddCollector.Collect sends for the parsed records, in order.
HddSamples(hddtemps) ==
    [i \in 1..Len(hddtemps) |->
        MustNewConstMetric("hddTempDesc", hddtemps[i].TemperatureCelsius,
                           <<hddtemps[i].Device, hddtemps[i].Id>>)]

(***************************************************************************)
(* LmSensorsCollector.Collect: the samples for the detected chips.         *)
(***************************************************************************)
Str_fan   == <<"f", "a", "n">>
Str_temp  == <<"t", "e", "m", "p">>
Str_in    == <<"i", "n">>
Str_power == <<"p", "o", "w", "e", "r">>

\* FeatureSamples with the descriptors of the "in" and "power" branches exchanged.
FeatureSamplesExchanged(chip, feature) ==
    LET labels == <<feature.Label, chip.Name, chip.Adapter>>
    IN  IF HasPrefix(feature.Name, Str_fan)
          THEN <<MustNewConstMetric("fanspeedDesc", feature.Value, labels)>>
        ELSE IF HasPrefix(feature.Name, Str_temp)
          THEN <<MustNewConstMetric("temperatureDesc", feature.Value, labels)>>
        ELSE IF HasPrefix(feature.Name, Str_in)
          THEN <<MustNewConstMetric("powerDesc", feature.Value, labels)>>
        ELSE IF HasPrefix(feature.Name, Str_power)
          THEN <<MustNewConstMetric("voltageDesc", feature.Value, labels)>>
        ELSE <<>>

FeatureSamples(chip, feature) ==
    LET labels == <<feature.Label, chip.Name, chip.Adapter>>
    IN  IF HasPrefix(feature.Name, Str_fan)
          THEN <<MustNewConstMetric("fanspeedDesc", feature.Value, labels)>>
        ELSE IF HasPrefix(feature.Name, Str_temp)
          THEN <<MustNewConstMetric("temperatureDesc", feature.Value, labels)>>
        ELSE IF HasPrefix(feature.Name, Str_in)
          THEN <<MustNewConstMetric("voltageDesc", feature.Value, labels)>>
        ELSE IF HasPrefix(feature.Name, Str_power)
          THEN <<MustNewConstMetric("powerDesc", feature.Value, labels)>>
        ELSE <<>>

RECURSIVE ChipSamples(_, _)
ChipSamples(chip, features) ==
    IF features = <<>> THEN <<>>
    ELSE FeatureSamples(chip, Head(features)) \o ChipSamples(chip, Tail(features))

RECURSIVE LmSamples(_)
LmSamples(chips) ==
    IF chips = <<>> THEN <<>>
    ELSE ChipSamples(Head(chips), Head(chips).Features) \o LmSamples(Tail(chips))

(***************************************************************************)
(* PwrstatCollector.Collect on one query result.  A query is either an     *)
(* error or a status mapping; the mapping is ranged over in no fixed       *)
(* order, and each key sends at most one sample, so the samples are a set. *)
(* value_arr[0] on a value without fields is an index out of range.        *)
(***************************************************************************)
Str_Normal == <<"N", "o", "r", "m", "a", "l">>
Str_Passed == <<"P", "a", "s", "s", "e", "d">>

ModelName(status) ==
    IF "Model Name" \in DOMAIN status THEN status["Model Name"] ELSE <<>>

NumericDesc(k) ==
    CASE k = "Load"              -> "LoadDesc"
      [] k = "Battery Capacity"  -> "BatteryDesc"
      [] k = "Remaining Runtime" -> "RtimeDesc"
      [] k = "Utility Voltage"   -> "InVoltageDesc"
      [] k = "Output Voltage"    -> "OutVoltageDesc"

NumericKeys ==
    {"Load", "Battery Capacity", "Remaining Runtime", "Utility Voltage", "Output Voltage"}

\* The body of the range loop for one key: the samples sent, or a panic.
PwrstatField(status, k) ==
    LET v     == status[k]
        label == <<ModelName(status)>>
    IN  IF k \in NumericKeys
          THEN IF Fields(v) = <<>> THEN [kind |-> "panic", samples |-> {}]
               ELSE IF ParseFloatOk(Fields(v)[1])
                 THEN [kind |-> "ok", samples |->
                         {MustNewConstMetric(NumericDesc(k), ParseFloatVal(Fields(v)[1]), label)}]
               ELSE [kind |-> "ok", samples |-> {}]
        ELSE IF k = "State"
          THEN [kind |-> "ok", samples |->
                  {MustNewConstMetric("StateDesc",
                                      Float(IF v = Str_Normal THEN 1 ELSE 0), label)}]
        ELSE IF k = "Test Result"
          THEN IF Fields(v) = <<>> THEN [kind |-> "panic", samples |-> {}]
               ELSE [kind |-> "ok", samples |->
                       {MustNewConstMetric("TestDesc",
                            Float(IF Fields(v)[1] = Str_Passed THEN 1 ELSE 0), label)}]
        ELSE [kind |-> "ok", samples |-> {}]

\* PwrstatSamples with a failed query sending no sample instead of panicking.
PwrstatSamplesNoPanic(query) ==
    IF query.err THEN [kind |-> "ok", samples |-> {}]
    ELSE IF \E k \in DOMAIN query.Status : PwrstatField(query.Status, k).kind = "panic"
      THEN [kind |-> "panic", samples |-> {}]
    ELSE [kind |-> "ok", samples |->
            UNION {PwrstatField(query.Status, k).samples : k \in DOMAIN query.Status}]

\* The process ends with a panic, so what the loop sent before it is never
\* served: a pass that panics counts as sending nothing.
PwrstatSamples(query) ==
    IF query.err THEN [kind |-> "panic", samples |-> {}]
    ELSE IF \E k \in DOMAIN query.Status : PwrstatField(query.Status, k).kind = "panic"
      THEN [kind |-> "panic", samples |-> {}]
    ELSE [kind |-> "ok", samples |->
            UNION {PwrstatField(query.Status, k).samples : k \in DOMAIN query.Status}]


(***************************************************************************)
(* The inputs of the model: what the environment may hand to the program.  *)
(***************************************************************************)
\* How a connection ends once its bytes are read: the peer closes (EOF),
\* the read fails, or the peer neither sends nor closes.
Endings == {"eof", "err", "hang"}

\* strings.Join(items, sep).
RECURSIVE Join(_, _)
Join(items, sep) ==
    IF items = <<>> THEN <<>>
    ELSE IF Len(items) = 1 THEN items[1]
    ELSE items[1] \o sep \o Join(Tail(items), sep)

\* The wire format of the daemon: '|' record ('||' record)* '|', a record
\* being its fields joined by '|'.
Encode(recs) ==
    <<"|">> \o Join([i \in 1..Len(recs) |-> Join(recs[i], <<"|">>)], <<"|", "|">>) \o <<"|">>

\* What the daemon writes on a connection: records it encodes, or raw bytes.
Records(recs) == [raw |-> FALSE, recs |-> recs, bytes |-> <<>>]
Raw(bytes) == [raw |-> TRUE, recs |-> <<>>, bytes |-> bytes]
Reply(msg) == IF msg.raw THEN msg.bytes ELSE Encode(msg.recs)

\* Two well-formed answers of the daemon, told apart by their content.
MsgA == Records(<< <<<<"a">>, <<"1">>, <<"2">>, <<"C">>>> >>)
MsgB == Records(<< <<<<"b">>, <<"2">>, <<"*">>, <<"*">>>> >>)
ConcMessages == {MsgA, MsgB}

\* The parser's input space: records with empty, numeric and non-numeric
\* fields, the three units, three to five fields; sequences of them; the
\* encodings with the first or the last byte changed; short raw strings.
Devs == {<<>>, <<"a">>}
Ids == {<<>>, <<"i">>}
TempUnits ==
    { << <<"2", ".", "5">>, <<"C">> >>, << <<"x">>, <<"C">> >>, << <<>>, <<"*">> >>,
      << <<"x">>, <<"*">> >>, << <<"2", ".", "5">>, <<"F">> >> }
RecSet ==
    {<<d, i, tu[1], tu[2]>> : d \in Devs, i \in Ids, tu \in TempUnits}
        \cup { << <<"a">>, <<"i">>, <<"4", "0">> >>,
               << <<"a">>, <<"i">>, <<"4", "0">>, <<"C">>, <<"C">> >> }
\* "|d1|i1|12.5|C||d2|i2|*|*|"
ExampleMsg ==
    Records(<< << <<"d", "1">>, <<"i", "1">>, <<"1", "2", ".", "5">>, <<"C">> >>,
               << <<"d", "2">>, <<"i", "2">>, <<"*">>, <<"*">> >> >>)
RecSeqs == UNION {[1..k -> RecSet] : k \in 0..MaxRecs}
RawAlphabet == {"|", "a", "C", "*", "1"}
RawStrings == UNION {[1..k -> RawAlphabet] : k \in 0..MaxRaw}
AllMessages ==
    {Records(recs) : recs \in RecSeqs}
        \cup {Raw(<<"x">> \o Tail(Encode(recs))) : recs \in RecSeqs}
        \cup {Raw(SubSeq(Encode(recs), 1, Len(Encode(recs)) - 1) \o <<"x">>) : recs \in RecSeqs}
        \cup {Raw(b) : b \in RawStrings}
        \cup {ExampleMsg}

\* The answers one collection cycle is run on: well-formed ones, one of each
\* kind of malformed record, an empty one, one that is just "|".
CycleMessages ==
    { MsgA, ExampleMsg,
      Records(<< << <<"a">>, <<"i">>, <<"4", "0">> >> >>),
      Records(<< << <<"a">>, <<"i">>, <<"4", "0">>, <<"C">> >>,
                 << <<"a">>, <<"i">>, <<"4", "0">>, <<"F">> >> >>),
      Records(<< << <<"a">>, <<"i">>, <<"x">>, <<"C">> >> >>),
      Raw(<<>>), Raw(<<"x">>), Raw(<<"|">>) }

\* The detected chips (fixed by gosensors.Init at start).
Feature(name, label, value) == [Name |-> name, Label |-> label, Value |-> value]
ChipsA ==
    << [Name |-> "chip0", Adapter |-> "ISA", Features |->
          << Feature(<<"f", "a", "n", "1">>, "fan1", Float(1200)),
             Feature(<<"t", "e", "m", "p", "1">>, "temp1", Float(40)),
             Feature(<<"c", "p", "u", "0">>, "cpu0", Float(1)) >>],
       [Name |-> "chip1", Adapter |-> "PCI", Features |->
          << Feature(<<"i", "n", "0">>, "in0", Float(12)),
             Feature(<<"p", "o", "w", "e", "r", "1">>, "power1", Float(65)),
             Feature(<<"i", "n", "t", "r", "u", "s", "i", "o", "n", "0">>, "intrusion0", Float(0)) >>] >>
LmInputs == {<<>>, ChipsA}

\* Results of the UPS status query.
UpsErr == [err |-> TRUE, Status |-> <<>>]
UpsOk(status) == [err |-> FALSE, Status |-> status]
\* No query made yet.
UpsNone == UpsOk(<<>>)
StatusNormal ==
    [k \in {"Model Name", "State", "Load", "Test Result"} |->
        CASE k = "Model Name"  -> <<"C", "P">>
          [] k = "State"       -> Str_Normal
          [] k = "Load"        -> <<"9", "0", " ", "W">>
          [] k = "Test Result" -> Str_Passed]
StatusOdd ==
    [k \in {"State", "Load", "Firmware"} |->
        CASE k = "State"    -> <<"F">>
          [] k = "Load"     -> <<"x", " ", "W">>
          [] k = "Firmware" -> <<"1">>]
StatusBlank == [k \in {"Load"} |-> <<" ">>]
UpsInputs == {UpsErr, UpsOk(StatusNormal), UpsOk(StatusOdd), UpsOk(StatusBlank)}

\* The inputs of the chip and UPS collectors on their own: one chip with
\* two features, the first of every kind of name; every status mapping with
\* each key absent or holding one of its values, and the failed query.
FeatNames ==
    { <<"f", "a", "n", "1">>, <<"F", "a", "n", "1">>, <<"t", "e", "m", "p", "1">>,
      <<"i", "n", "0">>, <<"i", "n", "t">>, <<"p", "o", "w", "e", "r", "1">>,
      <<"p", "o", "w">>, <<"c", "p", "u", "0">>, <<"f", "a">>, <<>> }
LmRich ==
    {<<>>, ChipsA} \cup
    { << [Name |-> "chip0", Adapter |-> "ISA", Features |->
            << Feature(n1, "l1", Float(1)), Feature(n2, "l2", Float(2)) >>] >> :
        n1 \in FeatNames, n2 \in {<<"t", "e", "m", "p", "1">>, <<"c", "p", "u", "0">>} }

\* The keys of a status mapping and, for each, the values it may hold.
UpsKeys ==
    <<"Model Name", "State", "Load", "Utility Voltage", "Output Voltage", "Test Result">>
UpsVals ==
    << << <<"C", "P">> >>,
       << Str_Normal, <<"F", "a", "u", "l", "t">>, <<"n", "o", "r", "m", "a", "l">>,
          Str_Normal \o <<" ">>, <<>> >>,
       << <<"9", "0", " ", "W">>, <<"x", " ", "W">>, <<>>, <<" ">> >>,
       << <<"1", "2", "0", " ", "V">>, <<"x">> >>,
       << <<"1", "2", "0", " ", "V">> >>,
       << Str_Passed, <<"F", "a", "i", "l", "e", "d">> >> >>
\* The choices of a status mapping: for each key 0 (absent) or the index of
\* its value.
UpsChoices == [i \in 1..Len(UpsKeys) |-> 0..Len(UpsVals[i])]
\* The status mapping of the choice c.
StatusOf(c) ==
    LET present == {i \in 1..Len(UpsKeys) : c[i] > 0}
    IN  [k \in {UpsKeys[i] : i \in present} |->
            LET i == CHOOSE j \in present : UpsKeys[j] = k IN UpsVals[i][c[i]]]

(***************************************************************************)
(* State.                                                                  *)
(***************************************************************************)
VARIABLES
    proc,         \* main: "init" before the collectors are registered,
                  \* "serving" in ListenAndServe, "terminated" after a panic
    chips,        \* what gosensors.GetDetectedChips returns
    conns,        \* every TCP connection dialled so far, in dial order
    h_conn,       \* HddCollector.conn: an index of conns, 0 for nil
    h_buf,        \* HddCollector.buf
    pc,           \* per scrape: where HddCollector.Collect stands
    own,          \* per scrape: the connection its h.Init dialled (0: none)
    src,          \* per scrape: the reader io.Copy was called with (0: none)
    closed,       \* per scrape: the connection its h.conn.Close() closed
    tempsString,  \* per scrape: what readTempsFromConn returned
    hddErr,       \* per scrape: the error Collect logged ("none" if none)
    lmDone,       \* per scrape: LmSensorsCollector.Collect has returned
    upsIn,        \* per scrape: what gopwrstat.NewFromSystem returned
    upsDone,      \* per scrape: PwrstatCollector.Collect has returned
    metrics,      \* per scrape: the samples sent on the scrape's channel
    status,       \* per scrape: the HTTP status written (0: none yet)
    rec,          \* the fields of the item a call of parseHddTemp is made on
    hddtemp       \* what that call returned ("none" before it returns)

vars == <<proc, chips, conns, h_conn, h_buf, pc, own, src, closed, tempsString,
          hddErr, lmDone, upsIn, upsDone, metrics, status, rec, hddtemp>>

\* No call of parseHddTemp on its own.
NoCall == [kind |-> "none"]

hddVars == <<conns, h_conn, h_buf, pc, own, src, closed, tempsString, hddErr>>

NoMetrics == [hdd |-> <<>>, lm |-> <<>>, ups |-> {}]

\* The state after construction, the detected chips being one of C.
Start(C) ==
    /\ proc = "init"
    /\ chips \in C
    /\ conns = <<>>
    /\ h_conn = 0
    /\ h_buf = <<>>
    /\ pc = [p \in Scrapes |-> "idle"]
    /\ own = [p \in Scrapes |-> 0]
    /\ src = [p \in Scrapes |-> 0]
    /\ closed = [p \in Scrapes |-> 0]
    /\ tempsString = [p \in Scrapes |-> <<>>]
    /\ hddErr = [p \in Scrapes |-> "none"]
    /\ lmDone = [p \in Scrapes |-> FALSE]
    /\ upsIn = [p \in Scrapes |-> UpsNone]
    /\ upsDone = [p \in Scrapes |-> FALSE]
    /\ metrics = [p \in Scrapes |-> NoMetrics]
    /\ status = [p \in Scrapes |-> 0]
    /\ rec = <<>>
    /\ hddtemp = NoCall

\* A connection net.Dial returned to `owner` (0: main).
\* resp are the bytes the daemon writes on it, pos how many have been read.
Conn(owner, msg, ending) ==
    [owner |-> owner, open |-> TRUE, msg |-> msg, resp |-> Reply(msg), pos |-> 0,
     ending |-> ending]

(***************************************************************************)
(* main: hddcollector.Init() once, its error only logged, then the         *)
(* collectors are registered and the server serves.  The connection this   *)
(* Init dials is stored in h.conn and never read.                          *)
(***************************************************************************)
main(M) ==
    /\ proc = "init"
    /\ proc' = "serving"
    /\ \/ UNCHANGED <<conns, h_conn>>
       \/ \E m \in M :
            /\ conns' = Append(conns, Conn(0, m, "eof"))
            /\ h_conn' = Len(conns) + 1
    /\ UNCHANGED <<chips, h_buf, pc, own, src, closed, tempsString, hddErr,
                   lmDone, upsIn, upsDone, metrics, status, rec, hddtemp>>

\* The handler of the metrics path starts a collection pass: the registry
\* calls the three Collect methods, each in a goroutine.
ServeScrape(p) ==
    /\ proc = "serving"
    /\ pc[p] = "idle"
    /\ \A q \in Scrapes : q < p => pc[q] # "idle"
    /\ pc' = [pc EXCEPT ![p] = "Init"]
    /\ UNCHANGED <<proc, chips, conns, h_conn, h_buf, own, src, closed, tempsString,
                   hddErr, lmDone, upsIn, upsDone, metrics, status, rec, hddtemp>>

(***************************************************************************)
(* HddCollector.readTempsFromConn, one action per access to the shared     *)
(* fields h.conn and h.buf.  The methods of bytes.Buffer are taken as      *)
(* atomic.                                                                 *)
(***************************************************************************)
\* h.Init(): net.Dial fails and Collect logs the error, or h.conn = conn.
HddInit(p, M, E) ==
    /\ proc = "serving"
    /\ pc[p] = "Init"
    /\ \/ /\ pc' = [pc EXCEPT ![p] = "done"]
          /\ hddErr' = [hddErr EXCEPT ![p] = "dial"]
          /\ UNCHANGED <<conns, h_conn, own>>
       \/ \E m \in M, e \in E :
            /\ conns' = Append(conns, Conn(p, m, e))
            /\ h_conn' = Len(conns) + 1
            /\ own' = [own EXCEPT ![p] = Len(conns) + 1]
            /\ pc' = [pc EXCEPT ![p] = "Reset"]
            /\ UNCHANGED hddErr
    /\ UNCHANGED <<proc, chips, h_buf, src, closed, tempsString,
                   lmDone, upsIn, upsDone, metrics, status, rec, hddtemp>>

\* readTempsFromConn going on to io.Copy without h.buf.Reset().
BufResetSkipped(p) ==
    /\ proc = "serving"
    /\ pc[p] = "Reset"
    /\ pc' = [pc EXCEPT ![p] = "Copy"]
    /\ UNCHANGED <<proc, chips, conns, h_conn, h_buf, own, src, closed, tempsString,
                   hddErr, lmDone, upsIn, upsDone, metrics, status, rec, hddtemp>>

\* h.buf.Reset()
BufReset(p) ==
    /\ proc = "serving"
    /\ pc[p] = "Reset"
    /\ h_buf' = <<>>
    /\ pc' = [pc EXCEPT ![p] = "Copy"]
    /\ UNCHANGED <<proc, chips, conns, h_conn, own, src, closed, tempsString,
                   hddErr, lmDone, upsIn, upsDone, metrics, status, rec, hddtemp>>

\* io.Copy(&h.buf, h.conn): the call reads the field h.conn once.
CopyCall(p) ==
    /\ proc = "serving"
    /\ pc[p] = "Copy"
    /\ src' = [src EXCEPT ![p] = h_conn]
    /\ pc' = [pc EXCEPT ![p] = "Read"]
    /\ UNCHANGED <<proc, chips, conns, h_conn, h_buf, own, closed, tempsString,
                   hddErr, lmDone, upsIn, upsDone, metrics, status, rec, hddtemp>>

\* One round of io.Copy's loop: a Read of the source and a Write to h.buf,
\* the end of the stream, or a read error (which readTempsFromConn returns
\* without closing anything).  A Read of a connection that hangs blocks.
CopyRead(p) ==
    LET c == conns[src[p]]
        n == IF Len(c.resp) - c.pos < ReadSize THEN Len(c.resp) - c.pos ELSE ReadSize
    IN  /\ proc = "serving"
        /\ pc[p] = "Read"
        /\ IF ~c.open
             THEN /\ pc' = [pc EXCEPT ![p] = "done"]
                  /\ hddErr' = [hddErr EXCEPT ![p] = "read"]
                  /\ UNCHANGED <<conns, h_buf>>
           ELSE IF c.pos < Len(c.resp)
             THEN /\ h_buf' = h_buf \o SubSeq(c.resp, c.pos + 1, c.pos + n)
                  /\ conns' = [conns EXCEPT ![src[p]].pos = c.pos + n]
                  /\ UNCHANGED <<pc, hddErr>>
           ELSE IF c.ending = "eof"
             THEN /\ pc' = [pc EXCEPT ![p] = "Close"]
                  /\ UNCHANGED <<conns, h_buf, hddErr>>
           ELSE /\ c.ending = "err"
                /\ pc' = [pc EXCEPT ![p] = "done"]
                /\ hddErr' = [hddErr EXCEPT ![p] = "read"]
                /\ UNCHANGED <<conns, h_buf>>
        /\ UNCHANGED <<proc, chips, h_conn, own, src, closed, tempsString,
                       lmDone, upsIn, upsDone, metrics, status, rec, hddtemp>>

\* h.conn.Close(): closes whatever h.conn holds now; its error is dropped.
ConnClose(p) ==
    /\ proc = "serving"
    /\ pc[p] = "Close"
    /\ conns' = [conns EXCEPT ![h_conn].open = FALSE]
    /\ closed' = [closed EXCEPT ![p] = h_conn]
    /\ pc' = [pc EXCEPT ![p] = "String"]
    /\ UNCHANGED <<proc, chips, h_conn, h_buf, own, src, tempsString,
                   hddErr, lmDone, upsIn, upsDone, metrics, status, rec, hddtemp>>

\* return h.buf.String(), nil
BufString(p) ==
    /\ proc = "serving"
    /\ pc[p] = "String"
    /\ tempsString' = [tempsString EXCEPT ![p] = h_buf]
    /\ pc' = [pc EXCEPT ![p] = "Parse"]
    /\ UNCHANGED <<proc, chips, conns, h_conn, h_buf, own, src, closed,
                   hddErr, lmDone, upsIn, upsDone, metrics, status, rec, hddtemp>>

(***************************************************************************)
(* HddCollector.Collect after readTempsFromConn returned a string.         *)
(***************************************************************************)
\* Collect going on to the loop after logging the parse error, with the
\* records of the items that did parse.
HddEmitNoReturn(s) ==
    LET r == parseHddTemps(s)
    IN  IF r.kind = "panic" THEN [kind |-> "panic", samples |-> <<>>]
        ELSE IF r.kind = "err"
          THEN [kind |-> "err", samples |->
                  IF Len(s) < 2 THEN <<>>
                  ELSE HddSamples(parseItemsSkip(
                           Split(Slice(s, 1, Len(s) - 1), <<"|", "|">>), <<>>).temps)]
        ELSE [kind |-> "ok", samples |-> HddSamples(r.temps)]

\* What Collect does with tempsString: the samples it sends, the error it
\* logs, and whether it returns at all.
HddEmit(s) ==
    LET r == parseHddTemps(s)
    IN  IF r.kind = "panic" THEN [kind |-> "panic", samples |-> <<>>]
        ELSE IF r.kind = "err" THEN [kind |-> "err", samples |-> <<>>]
        ELSE [kind |-> "ok", samples |-> HddSamples(r.temps)]

HddCollect(p) ==
    /\ proc = "serving"
    /\ pc[p] = "Parse"
    /\ \E r \in {HddEmit(tempsString[p])} :
        /\ IF r.kind = "panic"
             THEN /\ proc' = "terminated"
                  /\ UNCHANGED <<pc, hddErr, metrics>>
             ELSE /\ pc' = [pc EXCEPT ![p] = "done"]
                  /\ hddErr' = [hddErr EXCEPT ![p] = IF r.kind = "err" THEN "parse" ELSE "none"]
                  /\ metrics' = [metrics EXCEPT ![p].hdd = @ \o r.samples]
                  /\ UNCHANGED proc
    /\ UNCHANGED <<chips, conns, h_conn, h_buf, own, src, closed, tempsString,
                   lmDone, upsIn, upsDone, status, rec, hddtemp>>

(***************************************************************************)
(* The other two collectors and the end of the scrape.                     *)
(***************************************************************************)
LmSensorsCollect(p) ==
    /\ proc = "serving"
    /\ pc[p] # "idle"
    /\ ~lmDone[p]
    /\ metrics' = [metrics EXCEPT ![p].lm = @ \o LmSamples(chips)]
    /\ lmDone' = [lmDone EXCEPT ![p] = TRUE]
    /\ UNCHANGED <<proc, chips, upsIn, upsDone, status, rec, hddtemp>>
    /\ UNCHANGED hddVars

\* A panic in Collect is in a goroutine of the registry: nothing recovers
\* it and the process ends.
PwrstatCollect(p, U) ==
    /\ proc = "serving"
    /\ pc[p] # "idle"
    /\ ~upsDone[p]
    /\ \E q \in U :
        LET r == PwrstatSamples(q)
        IN  /\ upsIn' = [upsIn EXCEPT ![p] = q]
            /\ IF r.kind = "panic"
                 THEN /\ proc' = "terminated"
                      /\ UNCHANGED <<upsDone, metrics>>
                 ELSE /\ upsDone' = [upsDone EXCEPT ![p] = TRUE]
                      /\ metrics' = [metrics EXCEPT ![p].ups = @ \cup r.samples]
                      /\ UNCHANGED proc
    /\ UNCHANGED <<chips, lmDone, status, rec, hddtemp>>
    /\ UNCHANGED hddVars

\* Gather has every collector's samples: the handler writes the response.
ScrapeDone(p) ==
    /\ proc = "serving"
    /\ pc[p] = "done"
    /\ lmDone[p]
    /\ upsDone[p]
    /\ status[p] = 0
    /\ status' = [status EXCEPT ![p] = 200]
    /\ UNCHANGED <<proc, chips, lmDone, upsIn, upsDone, metrics, rec, hddtemp>>
    /\ UNCHANGED hddVars

(***************************************************************************)
(* The specification: NScrapes scrapes that may overlap.                   *)
(***************************************************************************)
Init == Start({ChipsA})

Next ==
    \/ main({MsgA})
    \/ \E p \in Scrapes :
        \/ ServeScrape(p)
        \/ HddInit(p, ConcMessages, Endings)
        \/ BufReset(p)
        \/ CopyCall(p)
        \/ CopyRead(p)
        \/ ConnClose(p)
        \/ BufString(p)
        \/ HddCollect(p)
        \/ LmSensorsCollect(p)
        \/ PwrstatCollect(p, {UpsErr, UpsOk(StatusNormal)})
        \/ ScrapeDone(p)

Spec == Init /\ [][Next]_vars


\* The steps of readTempsFromConn, and those of Collect.
ReadTempsStep(p) ==
    \/ HddInit(p, ConcMessages, Endings)
    \/ BufReset(p)
    \/ CopyCall(p)
    \/ CopyRead(p)
    \/ ConnClose(p)
    \/ BufString(p)

HddStep(p) == ReadTempsStep(p) \/ HddCollect(p)

\* The goroutine of each Collect call is scheduled fairly: it takes its next
\* step unless that step blocks.  The second conjunct is WF_vars(HddCollect(p))
\* with the enabling condition of HddCollect written out.
Fairness(p) ==
    /\ WF_vars(ReadTempsStep(p))
    /\ \/ []<>~(proc = "serving" /\ pc[p] = "Parse")
       \/ []<><<HddCollect(p)>>_vars

FairSpec == Spec /\ \A p \in Scrapes : Fairness(p)

(***************************************************************************)
(* Properties of the connection and the buffer of the HddCollector.        *)
(***************************************************************************)
\* readTempsFromConn of scrape p has returned (to Collect).
Returned(p) == pc[p] \in {"Parse", "done"}

\* A collection cycle of the HddCollector is in progress.
InCycle(p) == pc[p] \notin {"idle", "done"}

\* C1: every connection a fetch opened is closed by the time the fetch
\* returns, on every exit path.
C1_ClosedOnReturn ==
    \A p \in Scrapes :
        (Returned(p) /\ own[p] # 0) => ~conns[own[p]].open

\* C2: whenever no collection cycle is in progress, the HddTemp client
\* holds no open connection.
C2_NoConnOutsideCycle ==
    (\A p \in Scrapes : ~InCycle(p)) => \A c \in 1..Len(conns) : ~conns[c].open

\* C3: each fetch reads from and closes only the connection it opened.
C3_OwnConnOnly ==
    \A p \in Scrapes :
        /\ src[p] # 0 => src[p] = own[p]
        /\ closed[p] # 0 => closed[p] = own[p]

\* C4: the string a fetch returns is exactly the byte sequence delivered on
\* its own connection.
C4_OwnBytesOnly ==
    \A p \in Scrapes :
        pc[p] = "Parse" => tempsString[p] = conns[own[p]].resp

\* C5: a scrape whose own connection delivers its response and closes
\* completes its HddTemp collection, also while the connection of another
\* scrape hangs (the process being alive).
C5_HangStallsOnlyOwner ==
    \A q \in Scrapes :
        ( /\ InCycle(q)
          /\ own[q] # 0
          /\ conns[own[q]].ending = "eof"
          /\ \E p \in Scrapes \ {q} : own[p] # 0 /\ conns[own[p]].ending = "hang" )
            ~> (pc[q] = "done" \/ proc = "terminated")


(***************************************************************************)
(* One collection cycle: a single scrape, on every answer of               *)
(* CycleMessages, every ending, every UPS query result and chip set.       *)
(***************************************************************************)
InitCycle == Start(LmInputs)

NextCycle ==
    \/ main(CycleMessages)
    \/ ServeScrape(1)
    \/ HddInit(1, CycleMessages, Endings)
    \/ BufReset(1)
    \/ CopyCall(1)
    \/ CopyRead(1)
    \/ ConnClose(1)
    \/ BufString(1)
    \/ HddCollect(1)
    \/ LmSensorsCollect(1)
    \/ PwrstatCollect(1, UpsInputs)
    \/ ScrapeDone(1)

CycleSpec == InitCycle /\ [][NextCycle]_vars

(***************************************************************************)
(* The parser on its input space: the state in which readTempsFromConn     *)
(* has just returned the answer of AllMessages read from its connection,   *)
(* and the rest of Collect.                                                *)
(***************************************************************************)
InitParse ==
    \E m \in AllMessages :
        /\ proc = "serving"
        /\ chips = ChipsA
        /\ conns = << [Conn(1, m, "eof") EXCEPT !.open = FALSE, !.pos = Len(Reply(m))] >>
        /\ h_conn = 1
        /\ h_buf = Reply(m)
        /\ pc = [p \in Scrapes |-> IF p = 1 THEN "Parse" ELSE "idle"]
        /\ own = [p \in Scrapes |-> IF p = 1 THEN 1 ELSE 0]
        /\ src = [p \in Scrapes |-> IF p = 1 THEN 1 ELSE 0]
        /\ closed = [p \in Scrapes |-> IF p = 1 THEN 1 ELSE 0]
        /\ tempsString = [p \in Scrapes |-> IF p = 1 THEN Reply(m) ELSE <<>>]
        /\ hddErr = [p \in Scrapes |-> "none"]
        /\ lmDone = [p \in Scrapes |-> FALSE]
        /\ upsIn = [p \in Scrapes |-> UpsNone]
        /\ upsDone = [p \in Scrapes |-> FALSE]
        /\ metrics = [p \in Scrapes |-> NoMetrics]
        /\ status = [p \in Scrapes |-> 0]
        /\ rec = <<>>
        /\ hddtemp = NoCall

NextParse == HddCollect(1)

ParseSpec == InitParse /\ [][NextParse]_vars


(***************************************************************************)
(* Properties of the failure handling of Collect.                          *)
(***************************************************************************)
\* The samples of the chip and UPS collectors of scrape p are those of
\* their own inputs.
OthersUntouched(p) ==
    /\ metrics[p].lm = (IF lmDone[p] THEN LmSamples(chips) ELSE <<>>)
    /\ metrics[p].ups = (IF upsDone[p] THEN PwrstatSamples(upsIn[p]).samples ELSE {})

Panicked(q) ==
    \/ PwrstatSamples(upsIn[q]).kind = "panic"
    \/ pc[q] = "Parse" /\ parseHddTemps(tempsString[q]).kind = "panic"

C7_FirstReachableScrapeEmits ==
    \A p \in Scrapes :
        ( /\ pc[p] = "done"
          /\ own[p] = 1
          /\ conns[1].ending = "eof"
          /\ parseHddTemps(conns[1].resp).kind = "ok" )
            => metrics[p].hdd = HddSamples(parseHddTemps(conns[1].resp).temps)

(***************************************************************************)
(* Properties of the parser.                                               *)
(***************************************************************************)
\* The items of a response: what is between its first and its last byte,
\* split on "||".
Items(s) == Split(SubSeq(s, 2, Len(s) - 1), <<"|", "|">>)

\* An item is a valid record: 4 fields, unit "*", or "C" with a number.
RecordValid(item) ==
    LET f == Split(item, <<"|">>)
    IN  /\ Len(f) = 4
        /\ \/ f[4] = <<"*">>
           \/ f[4] = <<"C">> /\ ParseFloatOk(f[3])

\* Collect has run on the string readTempsFromConn returned.
Parsed == pc[1] = "done" \/ proc = "terminated"

\* C8: a response with an invalid record anywhere makes parseHddTemps
\* return an error and no records, and Collect emit no sample.
C8_BatchAtomic ==
    LET s == tempsString[1]
    IN  ( /\ Parsed
          /\ Len(s) >= 2
          /\ s[1] = "|"
          /\ \E i \in 1..Len(Items(s)) : ~RecordValid(Items(s)[i]) )
            => /\ parseHddTemps(s) = [kind |-> "err", temps |-> <<>>]
               /\ pc[1] = "done"
               /\ hddErr[1] = "parse"
               /\ metrics[1].hdd = <<>>

\* An invalid record after a valid one, and the error logged.
C8_Witness ==
    LET s == tempsString[1]
    IN  /\ pc[1] = "done"
        /\ Len(s) >= 2
        /\ s[1] = "|"
        /\ Len(Items(s)) = 2
        /\ RecordValid(Items(s)[1])
        /\ ~RecordValid(Items(s)[2])
        /\ hddErr[1] = "parse"

\* C9: an empty response, or one whose first byte is not '|', makes
\* parseHddTemps return an error and no record, whatever follows.
C9_LeadingPipe ==
    LET s == tempsString[1]
    IN  (Parsed /\ (s = <<>> \/ s[1] # "|"))
            => /\ parseHddTemps(s) = [kind |-> "err", temps |-> <<>>]
               /\ pc[1] = "done"
               /\ hddErr[1] = "parse"
               /\ metrics[1].hdd = <<>>

\* A response that is well-formed but for its first byte, and the error.
C9_Witness ==
    LET s == tempsString[1]
    IN  /\ pc[1] = "done"
        /\ Len(s) >= 2
        /\ s[1] = "x"
        /\ \A i \in 1..Len(Items(s)) : RecordValid(Items(s)[i])
        /\ hddErr[1] = "parse"

\* The records the claim C10 is about, and the record each should yield.
NoPipe(f) == \A i \in 1..Len(f) : f[i] # "|"

RoundTripRec(r) ==
    /\ Len(r) = 4
    /\ NoPipe(r[1])
    /\ NoPipe(r[2])
    /\ \/ r[4] = <<"*">>
       \/ r[4] = <<"C">> /\ ParseFloatOk(r[3])

Expected(recs) ==
    [i \in 1..Len(recs) |->
        HddTemperature(recs[i][1], recs[i][2],
                       IF recs[i][4] = <<"*">> THEN Float(-1) ELSE ParseFloatVal(recs[i][3]))]

\* C10 as stated: the encoding of N >= 1 records whose device and id have
\* no '|' and whose unit is "C" with a number or "*" parses to the same N
\* records in the same order (temperature -1 for "*").
C10_RoundTrip ==
    LET m == conns[1].msg
    IN  ( /\ Parsed
          /\ ~m.raw
          /\ Len(m.recs) >= 1
          /\ \A i \in 1..Len(m.recs) : RoundTripRec(m.recs[i]) )
            => /\ pc[1] = "done"
               /\ hddErr[1] = "none"
               /\ metrics[1].hdd = HddSamples(Expected(m.recs))

\* C10 amended: the same for records whose id and temperature fields are,
\* in addition, not empty, and whose temperature has no '|'.
C10_RoundTripNonEmpty ==
    LET m == conns[1].msg
    IN  ( /\ Parsed
          /\ ~m.raw
          /\ Len(m.recs) >= 1
          /\ \A i \in 1..Len(m.recs) :
                /\ RoundTripRec(m.recs[i])
                /\ m.recs[i][2] # <<>>
                /\ m.recs[i][3] # <<>>
                /\ NoPipe(m.recs[i][3]) )
            => /\ pc[1] = "done"
               /\ hddErr[1] = "none"
               /\ metrics[1].hdd = HddSamples(Expected(m.recs))

\* "|d1|i1|12.5|C||d2|i2|*|*|" has yielded {d1,i1,12.5} and {d2,i2,-1}.
C10_Witness ==
    /\ pc[1] = "done"
    /\ conns[1].msg = ExampleMsg
    /\ metrics[1].hdd =
          << MustNewConstMetric("hddTempDesc", <<125, 1>>, << <<"d", "1">>, <<"i", "1">> >>),
             MustNewConstMetric("hddTempDesc", <<-1, 0>>, << <<"d", "2">>, <<"i", "2">> >>) >>

(***************************************************************************)
(* parseHddTemp on its own: a call on the item made of the fields rec      *)
(* joined by '|', for every record of ItemRecs.                            *)
(***************************************************************************)
\* Fields without '|': empty, numeric and non-numeric temperatures, the
\* units "*" and "C", other units, the empty unit; three to five fields.
ItemTemps == {<<>>, <<"2", ".", "5">>, <<"4", "0">>, <<"x">>}
ItemUnits == {<<"*">>, <<"C">>, <<"F">>, <<"c">>, <<>>}
ItemRecs ==
    {<<d, i, t, u>> : d \in Devs, i \in Ids, t \in ItemTemps, u \in ItemUnits}
        \cup {<<d, t, u>> : d \in Devs, t \in ItemTemps, u \in ItemUnits}
        \cup {<<d, <<"i">>, t, u, u>> : d \in Devs, t \in ItemTemps, u \in ItemUnits}

InitItem == Start({ChipsA})

\* hddtemp, err := parseHddTemp(item), the item being a record of R.
CallParseHddTemp(R) ==
    /\ hddtemp = NoCall
    /\ \E r \in R :
        /\ rec' = r
        /\ hddtemp' = parseHddTemp(Join(r, <<"|">>))
    /\ UNCHANGED <<proc, chips, lmDone, upsIn, upsDone, metrics, status>>
    /\ UNCHANGED hddVars

NextItem == CallParseHddTemp(ItemRecs)

ItemSpec == InitItem /\ [][NextItem]_vars

\* C11: on a 4-field record whose unit is "*", parseHddTemp succeeds with
\* the record's device and id and the temperature -1, whatever the
\* temperature field holds.
C11_StarIsMinusOne ==
    (hddtemp # NoCall /\ Len(rec) = 4 /\ rec[4] = <<"*">>)
        => hddtemp = [kind |-> "ok", temp |-> HddTemperature(rec[1], rec[2], Float(-1))]

\* The call has returned -1 for a "*" record whose temperature is garbage.
C11_Witness ==
    /\ rec = << <<"a">>, <<"i">>, <<"x">>, <<"*">> >>
    /\ hddtemp.kind = "ok"
    /\ hddtemp.temp.TemperatureCelsius = <<-1, 0>>

\* C12: on a 4-field record whose unit is neither "C" nor "*",
\* parseHddTemp returns an error, also when the temperature is a number.
C12_OtherUnitFails ==
    (hddtemp # NoCall /\ Len(rec) = 4 /\ rec[4] \notin {<<"C">>, <<"*">>})
        => hddtemp = [kind |-> "err"]

\* The call has returned an error for the unit "c" with a numeric temperature.
C12_Witness ==
    /\ rec = << <<"a">>, <<"i">>, <<"4", "0">>, <<"c">> >>
    /\ hddtemp.kind = "err"

(***************************************************************************)
(* The chip and the UPS collector of one scrape, on the chips of LmRich    *)
(* and every query result: a failure or a status mapping of UpsChoices.    *)
(***************************************************************************)
InitAdapter == Start(LmRich)

NextAdapter ==
    \/ main({MsgA})
    \/ ServeScrape(1)
    \/ LmSensorsCollect(1)
    \/ PwrstatCollect(1, {UpsErr})
    \/ \E c1 \in UpsChoices[1], c2 \in UpsChoices[2], c3 \in UpsChoices[3],
          c4 \in UpsChoices[4], c5 \in UpsChoices[5], c6 \in UpsChoices[6] :
            PwrstatCollect(1, {UpsOk(StatusOf(<<c1, c2, c3, c4, c5, c6>>))})

AdapterSpec == InitAdapter /\ [][NextAdapter]_vars

\* A numeric UPS field whose value has no parseable first token.
Unparseable(v) == Fields(v) = <<>> \/ ~ParseFloatOk(Fields(v)[1])

\* The fields of a status mapping that are numeric and unparseable.
BadFields(st) == {k \in DOMAIN st \cap NumericKeys : Unparseable(st[k])}

\* C13: a status mapping with a numeric field whose value has no parseable
\* first token (the empty and the blank value included) makes the UPS
\* collector only omit that field's sample: the pass completes and sends
\* the samples of the other fields.
C13_UnparseableFieldSkipped ==
    \A p \in Scrapes :
        LET st == upsIn[p].Status
        IN  (~upsIn[p].err /\ BadFields(st) # {}) =>
                /\ upsDone[p]
                /\ proc # "terminated"
                /\ metrics[p].ups =
                      UNION { IF k \in BadFields(st) THEN {}
                              ELSE PwrstatField(st, k).samples : k \in DOMAIN st }

\* C14: no pass of the UPS collector sends a sample of the input-voltage
\* descriptor.
C14_NoInVoltageSample ==
    \A p \in Scrapes : \A m \in metrics[p].ups : m.desc # "InVoltageDesc"

\* C15: a failed UPS status query ends the process: the collector does not
\* return and no UPS sample of that pass is sent.
C15_QueryFailureTerminates ==
    \A p \in Scrapes :
        upsIn[p].err =>
            /\ proc = "terminated"
            /\ ~upsDone[p]
            /\ status[p] = 0
            /\ metrics[p].ups = {}

\* The query of scrape 1 has failed and the process has ended.
C15_Witness ==
    /\ upsIn[1].err
    /\ proc = "terminated"

\* The features of the chips, in the order Collect visits them.
RECURSIVE AllFeatures(_)
AllFeatures(cs) ==
    IF cs = <<>> THEN <<>>
    ELSE [i \in 1..Len(Head(cs).Features) |->
              [chip |-> Head(cs), feature |-> Head(cs).Features[i]]]
         \o AllFeatures(Tail(cs))

Prefixes == <<Str_fan, Str_temp, Str_in, Str_power>>
PrefixDesc == <<"fanspeedDesc", "temperatureDesc", "voltageDesc", "powerDesc">>

\* The prefixes (by priority) a feature name starts with.
Matching(name) ==
    {i \in 1..4 : /\ Len(name) >= Len(Prefixes[i])
                  /\ \A j \in 1..Len(Prefixes[i]) : name[j] = Prefixes[i][j]}

Classified(cf) == Matching(cf.feature.Name) # {}

\* C16: the chip collector sends, in order, one sample for each feature
\* whose name starts with "fan", "temp", "in" or "power" (the metric of the
\* first prefix that matches, the labels feature label, chip, adaptor, the
\* feature's value), and none for the other features.
C16_FeatureClassification ==
    \A p \in Scrapes :
        lmDone[p] =>
            LET want == SelectSeq(AllFeatures(chips), Classified)
                got  == metrics[p].lm
            IN  /\ Len(got) = Len(want)
                /\ \A j \in 1..Len(want) :
                      LET first == CHOOSE i \in Matching(want[j].feature.Name) :
                                      \A i2 \in Matching(want[j].feature.Name) : i <= i2
                      IN  got[j] = [desc   |-> PrefixDesc[first],
                                    value  |-> want[j].feature.Value,
                                    labels |-> <<want[j].feature.Label,
                                                 want[j].chip.Name,
                                                 want[j].chip.Adapter>>]

\* The pass over ChipsA: fan1, temp1, in0, power1 and intrusion0 have their
\* samples, cpu0 has none.
C16_Witness ==
    /\ lmDone[1]
    /\ chips = ChipsA
    /\ [j \in 1..Len(metrics[1].lm) |-> metrics[1].lm[j].desc]
          = <<"fanspeedDesc", "temperatureDesc", "voltageDesc", "powerDesc", "voltageDesc">>

\* C17: for a status mapping with a "State" field the UPS collector sends
\* exactly one state sample: 1 for the value "Normal", 0 for any other,
\* labelled with the model name.
C17_StateSample ==
    \A p \in Scrapes :
        LET st == upsIn[p].Status
        IN  (~upsIn[p].err /\ "State" \in DOMAIN st) =>
                {m \in metrics[p].ups : m.desc = "StateDesc"}
                    = { [desc   |-> "StateDesc",
                         value  |-> IF st["State"] = Str_Normal THEN <<1, 0>> ELSE <<0, 0>>,
                         labels |-> <<ModelName(st)>>] }

\* C18: every sample sent carries as many label values as its descriptor
\* has label names, in the descriptor's order: feature label, chip and
\* adaptor for the chip metrics, device and id for the disk temperature,
\* the model name for the UPS metrics.
C18_LabelArity ==
    \A p \in Scrapes :
        /\ \A j \in 1..Len(metrics[p].lm) :
              LET m == metrics[p].lm[j]
              IN  /\ m.desc \in {"fanspeedDesc", "temperatureDesc", "voltageDesc", "powerDesc"}
                  /\ Len(m.labels) = 3
                  /\ Len(m.labels) = Len(LabelNames(m.desc))
                  /\ \E c \in 1..Len(chips) :
                        /\ \E f \in 1..Len(chips[c].Features) :
                              m.labels[1] = chips[c].Features[f].Label
                        /\ m.labels[2] = chips[c].Name
                        /\ m.labels[3] = chips[c].Adapter
        /\ \A j \in 1..Len(metrics[p].hdd) :
              LET m  == metrics[p].hdd[j]
                  ts == parseHddTemps(tempsString[p]).temps
              IN  /\ m.desc = "hddTempDesc"
                  /\ Len(m.labels) = 2
                  /\ Len(m.labels) = Len(LabelNames(m.desc))
                  /\ m.labels = <<ts[j].Device, ts[j].Id>>
        /\ \A m \in metrics[p].ups :
              /\ Len(m.labels) = 1
              /\ Len(m.labels) = Len(LabelNames(m.desc))
              /\ m.labels = <<ModelName(upsIn[p].Status)>>

\* A scrape answered with samples of all three collectors.
C18_Witness ==
    /\ status[1] = 200
    /\ Len(metrics[1].lm) > 0
    /\ Len(metrics[1].hdd) = 2
    /\ metrics[1].ups # {}

\* C19: parseHddTemps returns records or an error on every string; the
\* call never faults, so no call of it in Collect ends the process.
C19_ParseTotal ==
    \A p \in Scrapes :
        proc = "terminated" =>
            ~(pc[p] = "Parse" /\ parseHddTemps(tempsString[p]).kind = "panic")

(***************************************************************************)
(* Scrapes one after the other: a scrape starts when the one before it     *)
(* has been answered, so the cycles of the HddCollector do not overlap.    *)
(***************************************************************************)
\* The two well-formed answers and one whose record has three fields.
SeqMessages == {MsgA, MsgB, Records(<< << <<"a">>, <<"i">>, <<"4", "0">> >> >>)}

ServeNext(p) ==
    /\ \A q \in Scrapes : q < p => status[q] = 200
    /\ ServeScrape(p)

InitSeq == Start({ChipsA})

NextSeq ==
    \/ main({MsgA})
    \/ \E p \in Scrapes :
        \/ ServeNext(p)
        \/ HddInit(p, SeqMessages, Endings)
        \/ BufReset(p)
        \/ CopyCall(p)
        \/ CopyRead(p)
        \/ ConnClose(p)
        \/ BufString(p)
        \/ HddCollect(p)
        \/ LmSensorsCollect(p)
        \/ PwrstatCollect(p, {UpsErr, UpsOk(StatusNormal)})
        \/ ScrapeDone(p)

SeqSpec == InitSeq /\ [][NextSeq]_vars

\* The bytes the cycle of scrape p has read from its connection.
BytesRead(p) ==
    IF own[p] = 0 THEN <<>> ELSE SubSeq(conns[own[p]].resp, 1, conns[own[p]].pos)

\* C20: with cycles that do not overlap, the string a cycle parses is the
\* bytes it read itself and its samples are the records parsed from them
\* (none when the cycle failed), whatever an earlier cycle read or left.
C20_NoCarryOver ==
    \A p \in Scrapes :
        /\ pc[p] = "Parse" => tempsString[p] = BytesRead(p)
        /\ pc[p] = "done" =>
              metrics[p].hdd =
                  IF hddErr[p] = "none"
                    THEN HddSamples(parseHddTemps(BytesRead(p)).temps)
                    ELSE <<>>

\* The first cycle failed after reading bytes, the second has sent the
\* samples of another response.
C20_Witness ==
    /\ hddErr[1] = "read"
    /\ own[1] # 0
    /\ conns[own[1]].pos > 0
    /\ pc[2] = "done"
    /\ hddErr[2] = "none"
    /\ conns[own[2]].msg # conns[own[1]].msg
    /\ Len(metrics[2].hdd) = 1

====
